---- MODULE Spec2Model ----
(***************************************************************************)
(* Collab write paths of the workspace API (src/src/api/workspace.rs):     *)
(* create_collab_handler, update_collab_handler,                          *)
(* batch_create_collab_handler, collab_full_sync_handler,                 *)
(* post_realtime_message_stream_handler and                               *)
(* force_generate_collab_embedding_handler, together with the realtime    *)
(* server mailbox they send into, the collab table they persist to and    *)
(* the indexer queue they feed.                                           *)
(*                                                                         *)
(* Every handler is an async fn; it is cut into one action per stretch of *)
(* code between two suspension points that touch shared state (database,  *)
(* indexer, server mailbox), so that concurrent requests interleave the   *)
(* way the runtime lets them.  The arrival of a request belongs to the    *)
(* first of these stretches: until then the request has touched nothing.  *)
(***************************************************************************)
EXTENDS Naturals, Integers, Sequences, FiniteSets, TLC

\* ---------------------------------------------------------------- bounds
NumReq == 2        \* concurrent HTTP requests in one behaviour
MaxFrames == 2     \* frames in one batch body
MailboxCap == 1    \* capacity of the realtime server's mailbox
PlanLimit == 2     \* total_limit_bytes of the caller's plan
MaxItem == 2       \* CRDT items an update or snapshot can carry
MaxBody == 8       \* bytes in the body of a framed stream
MaxByte == 1       \* largest value of one byte of such a body
MaxSessions == 3   \* connections registered in one behaviour
MaxAiCount == 2    \* responses counted for a workspace with unlimited AI

Reqs == 1..NumReq
\* the owner of the space, who is also the owner of the shared collab, and
\* two other users
Users == {"owner", "u1", "u2"}
Objects == {"o1", "o2"}
Items == 1..MaxItem

None == "none"
NoReq == [kind |-> "none"]
\* No row in the collab table for an object.
NoSnap == [items |-> {}, quality |-> "absent", ctype |-> "none"]
NoReply == [tag |-> "none"]
\* A response without a body, as HttpResponse::finish() builds it.
NoBody == [encoding |-> "none", data |-> {}]

\* ------------------------------------------------------------ data model
\* An encoded collab (CollabParams.encoded_collab_v1).  items is the CRDT
\* content, its byte length is the number of items.  quality tells what
\* the decoder and the validator make of it:
\*   "ok"      decodes and has the structure its collab_type requires
\*   "invalid" decodes, but validate_require_data fails
\*   "corrupt" EncodedCollab::decode_from_bytes fails
CollabTypes == {"Document", "Folder"}
Qualities == {"ok", "invalid", "corrupt"}

Snap(items, quality, ctype) == [items |-> items, quality |-> quality, ctype |-> ctype]

Snapshots ==
  { Snap({1}, "ok", "Document"),
    Snap(Items, "ok", "Document"),
    Snap({1}, "invalid", "Document"),
    Snap({1}, "corrupt", "Document"),
    Snap({1}, "ok", "Folder"),
    Snap(Items, "invalid", "Folder") }

\* params.encoded_collab_v1.len()
Size(s) == Cardinality(s.items)

\* collab_from_encode_collab: Ok iff the bytes decode
Decodes(s) == s.quality # "corrupt"

\* CollabType::validate_require_data on a decoded collab
ValidateRequireData(s) == s.quality = "ok"

\* Document::open(collab): only a collab holding a document opens
DocumentOpens(s) == s.quality = "ok" /\ s.ctype = "Document"

VARIABLES
  pc,          \* pc[r]: where request r stands in its handler
  req,         \* req[r]: the request's parameters
  resp,        \* resp[r]: the response sent, None while unanswered
  respBody,    \* respBody[r]: the body of that response
  stored,      \* stored[o]: the persisted collab row of object o, or NoSnap
  indexQueue,  \* tasks handed to indexer_scheduler, each tagged by request
  mailbox,     \* messages accepted by the realtime server, oldest first
  acc,         \* acc[r]: replica the actor is merging request r into
  reply,       \* reply[r]: what the actor sent on r's oneshot return_tx
  published,   \* items the published-collab store holds
  sessions,    \* every RealtimeUser the presence registry has registered
  subscriptions, \* <<session_id, object>> pairs: who follows which object
  aiUsage,     \* aiUsage[w]: AI responses counted this month for workspace w
  joinRequests, \* rows of the join_requests table of one space
  userSubs,    \* rows of af_user_subscriptions
  collabMember, \* collabMember[u]: permission_id of u's af_collab_member row, 0 for none
  policies     \* policies[u]: access level the access control holds for u

\* the tables of the workspace services, which the collab handlers above
\* never touch
tables == <<aiUsage, joinRequests, userSubs, collabMember, policies>>

\* what the collab handlers work on, which the workspace services never
\* touch
collabState == <<respBody, stored, indexQueue, mailbox, acc, reply, published,
                 sessions, subscriptions>>

vars == <<pc, req, resp, respBody, stored, indexQueue, mailbox, acc, reply,
          published, sessions, subscriptions, aiUsage, joinRequests, userSubs,
          collabMember, policies>>

\* ------------------------------------------------------------- storage
RECURSIVE SumSizes(_)
SumSizes(S) ==
  IF S = {} THEN 0
  ELSE LET o == CHOOSE x \in S : TRUE
       IN Size(stored[o]) + SumSizes(S \ {o})

\* get_user_total_usage_bytes: bytes the user's collabs occupy
CurrentUsage == SumSizes(Objects)

\* ExceedsLimit that forgets what is already stored
ExceedsLimit_SizeOnly(current_usage, content_size) == content_size > PlanLimit

\* line 1123: current_usage + content_size > total_limit_bytes
ExceedsLimit(current_usage, content_size) == current_usage + content_size > PlanLimit

\* check_user_storage_limit(pool, uid, size): Err(PlanLimitExceeded) when
\* the current usage plus size is over the plan limit
CheckUserStorageLimit(size) ==
  IF CurrentUsage + size > PlanLimit THEN "PlanLimitExceeded" ELSE "Ok"

Init ==
  /\ pc = [r \in Reqs |-> "idle"]
  /\ req = [r \in Reqs |-> NoReq]
  /\ resp = [r \in Reqs |-> None]
  /\ respBody = [r \in Reqs |-> NoBody]
  /\ stored = [o \in Objects |-> NoSnap]
  /\ indexQueue = {}
  /\ mailbox = <<>>
  /\ acc = [r \in Reqs |-> [tag |-> "none"]]
  /\ reply = [r \in Reqs |-> NoReply]
  /\ published = {}
  /\ sessions = {}
  /\ subscriptions = {}
  /\ aiUsage = [w \in {"w1", "w2"} |-> 0]
  /\ joinRequests = {}
  /\ userSubs = {}
  /\ collabMember = [u \in Users |-> IF u = "owner" THEN 4 ELSE 0]
  /\ policies = [u \in Users |-> IF u = "owner" THEN "FullAccess" ELSE "none"]

\* Request slots are taken in order: the slots are interchangeable, so a
\* behaviour that fills slot 2 before slot 1 is a renaming of one that
\* fills them in order.
Arrives(r) ==
  /\ pc[r] = "idle"
  /\ \A q \in Reqs : q < r => pc[q] # "idle"

\* A request ends: the handler returns code to the client.
Respond(r, code) ==
  /\ pc' = [pc EXCEPT ![r] = "done"]
  /\ resp' = [resp EXCEPT ![r] = code]
  /\ UNCHANGED respBody

\* The handler returns code with a body.
RespondWith(r, code, body) ==
  /\ pc' = [pc EXCEPT ![r] = "done"]
  /\ resp' = [resp EXCEPT ![r] = code]
  /\ respBody' = [respBody EXCEPT ![r] = body]

Goto(r, label) ==
  /\ pc' = [pc EXCEPT ![r] = label]
  /\ UNCHANGED <<resp, respBody>>

\* ------------------------------------------------ create_collab_handler
\* form: "rejected" is a body that does not parse into CreateCollabParams,
\* or whose object_id is the workspace_id (lines 1087-1116)
CreateRequests ==
  [kind : {"create"}, form : {"ok"}, obj : Objects, snap : Snapshots]
    \cup {[kind |-> "create", form |-> "rejected", obj |-> "o1", snap |-> Snap({1}, "ok", "Document")]}

\* lines 1081-1131: the request is parsed, then the capacity check
CreateCapacity(r) ==
  /\ Arrives(r)
  /\ \E q \in CreateRequests :
       /\ req' = [req EXCEPT ![r] = q]
       /\ IF q.form # "ok"
            THEN Respond(r, "InvalidRequest")
          ELSE IF ExceedsLimit(CurrentUsage, Size(q.snap))
            THEN Respond(r, "PlanLimitExceeded")
          ELSE Goto(r, "create_validate")
  /\ UNCHANGED <<stored, indexQueue, mailbox, acc, reply, published, sessions, subscriptions, tables>>

\* lines 1133-1168: decode, validate, then hand the text to the indexer.
\* can_index_workspace and index_pending_collab_one both return a Result
\* that the handler propagates with `?`.
CreateValidateIndex(r) ==
  /\ pc[r] = "create_validate"
  /\ LET s == req[r].snap IN
     IF ~Decodes(s) \/ ~ValidateRequireData(s)
       THEN Respond(r, "NoRequiredData") /\ UNCHANGED indexQueue
       ELSE \E canIndex \in {"yes", "no", "err"} :
              CASE canIndex = "err" -> Respond(r, "Internal") /\ UNCHANGED indexQueue
                [] canIndex = "no" -> Goto(r, "create_commit") /\ UNCHANGED indexQueue
                [] canIndex = "yes" ->
                     IF DocumentOpens(s)
                       THEN \E enqueued \in BOOLEAN :
                              IF enqueued
                                THEN /\ indexQueue' = indexQueue \cup {[req |-> r, obj |-> req[r].obj]}
                                     /\ Goto(r, "create_commit")
                                ELSE /\ UNCHANGED indexQueue
                                     /\ Respond(r, "Internal")
                       ELSE Goto(r, "create_commit") /\ UNCHANGED indexQueue
  /\ UNCHANGED <<req, stored, mailbox, acc, reply, published, sessions, subscriptions, tables>>

\* lines 1170-1191: begin, upsert_new_collab_with_transaction, commit.
\* A database error rolls the transaction back and is returned.
CreateCommit(r) ==
  /\ pc[r] = "create_commit"
  /\ \E committed \in BOOLEAN :
       IF committed
         THEN /\ stored' = [stored EXCEPT ![req[r].obj] = req[r].snap]
              /\ Respond(r, "Ok")
         ELSE /\ UNCHANGED stored
              /\ Respond(r, "Internal")
  /\ UNCHANGED <<req, indexQueue, mailbox, acc, reply, published, sessions, subscriptions, tables>>

\* ------------------------------------------------ update_collab_handler
UpdateRequests == [kind : {"update"}, obj : Objects, snap : Snapshots]

\* lines 2059-2112: only when the workspace can be indexed and the collab
\* is a Document is the collab decoded, validated and handed to the
\* indexer; the task is skipped when the document has no paragraphs.
UpdateValidateIndex(r) ==
  /\ Arrives(r)
  /\ \E q \in UpdateRequests, canIndex \in {"yes", "no", "err"} :
       /\ req' = [req EXCEPT ![r] = q]
       /\ CASE canIndex = "err" -> Respond(r, "Internal") /\ UNCHANGED indexQueue
            [] canIndex = "no" -> Goto(r, "update_persist") /\ UNCHANGED indexQueue
            [] canIndex = "yes" ->
                 IF q.snap.ctype # "Document"
                   THEN Goto(r, "update_persist") /\ UNCHANGED indexQueue
                 ELSE IF ~Decodes(q.snap)
                   THEN Respond(r, "InvalidRequest") /\ UNCHANGED indexQueue
                 ELSE IF ~ValidateRequireData(q.snap)
                   THEN Respond(r, "NoRequiredData") /\ UNCHANGED indexQueue
                 ELSE \E hasParagraphs \in BOOLEAN, enqueued \in BOOLEAN :
                        IF ~(DocumentOpens(q.snap) /\ hasParagraphs)
                          THEN Goto(r, "update_persist") /\ UNCHANGED indexQueue
                        ELSE IF enqueued
                          THEN /\ indexQueue' = indexQueue \cup {[req |-> r, obj |-> q.obj]}
                               /\ Goto(r, "update_persist")
                          ELSE /\ UNCHANGED indexQueue
                               /\ Respond(r, "Internal")
  /\ UNCHANGED <<stored, mailbox, acc, reply, published, sessions, subscriptions, tables>>

\* lines 2114-2118: upsert_collab_background, then Ok
UpdatePersist(r) ==
  /\ pc[r] = "update_persist"
  /\ \E written \in BOOLEAN :
       IF written
         THEN /\ stored' = [stored EXCEPT ![req[r].obj] = req[r].snap]
              /\ Respond(r, "Ok")
         ELSE /\ UNCHANGED stored
              /\ Respond(r, "Internal")
  /\ UNCHANGED <<req, indexQueue, mailbox, acc, reply, published, sessions, subscriptions, tables>>

\* ------------------------------------------ batch_create_collab_handler
\* One frame of the body: `wire` is what decompress and
\* CreateCollabData::from_bytes make of the frame bytes, obj and snap are
\* the CollabParams the frame then yields.
ObjAt(i) == IF i % 2 = 1 THEN "o1" ELSE "o2"

FrameSnaps ==
  { Snap({1}, "ok", "Document"),
    Snap(Items, "ok", "Folder") }

FrameContents ==
  [wire : {"ok"}, snap : FrameSnaps] \cup {[wire |-> "garbled", snap |-> NoSnap]}

\* A body of fewer frames is handled as the same body filled up with
\* garbled frames, which the filter drops: bodies of MaxFrames frames
\* cover the shorter ones.
BatchBodies == [1..MaxFrames -> FrameContents]

BatchRequests == [kind : {"batch"}, frames : BatchBodies, pending : {{}}]

\* lines 1238-1275: the filter_map closure keeps a frame only when it
\* decompresses, parses, decodes and passes validate_require_data
FrameValid(f) == f.wire = "ok" /\ Decodes(f.snap) /\ ValidateRequireData(f.snap)

\* the filter as a collect into a Result: one bad frame and nothing is kept
ValidPositions_AllOrNothing(frames) ==
  IF \A i \in DOMAIN frames : FrameValid(frames[i]) THEN DOMAIN frames ELSE {}

\* positions of the frames that survive the filter, in body order
ValidPositions(frames) == {i \in DOMAIN frames : FrameValid(frames[i])}

\* the fold counting frames instead of adding their lengths
TotalSize_CountsFrames(frames, positions) == Cardinality(positions)

\* lines 1285-1287: fold of encoded_collab_v1.len() over the kept frames
RECURSIVE TotalSize(_, _)
TotalSize(frames, positions) ==
  IF positions = {} THEN 0
  ELSE LET i == CHOOSE x \in positions : TRUE
       IN Size(frames[i].snap) + TotalSize(frames, positions \ {i})

\* lines 1303-1319: index tasks of the kept frames whose text was extracted
BatchPending(r, frames) ==
  { [req |-> r, obj |-> ObjAt(i)] :
      i \in {j \in ValidPositions(frames) : DocumentOpens(frames[j].snap)} }

\* batch_insert_new_collab: every kept frame becomes the row of its object;
\* of two frames for one object the later one wins
RECURSIVE InsertAll(_, _, _)
InsertAll(table, frames, i) ==
  IF i > Len(frames) THEN table
  ELSE InsertAll(IF FrameValid(frames[i])
                   THEN [table EXCEPT ![ObjAt(i)] = frames[i].snap]
                   ELSE table,
                 frames, i + 1)

\* lines 1195-1295: read and split the body, filter the frames, reject
\* an empty list, then check the aggregate size against the quota
BatchCapacity(r) ==
  /\ Arrives(r)
  /\ \E q \in BatchRequests :
       /\ req' = [req EXCEPT ![r] = q]
       /\ LET kept == ValidPositions(q.frames) IN
          IF kept = {}
            THEN Respond(r, "InvalidRequest")
          ELSE IF CheckUserStorageLimit(TotalSize(q.frames, kept)) # "Ok"
            THEN Respond(r, CheckUserStorageLimit(TotalSize(q.frames, kept)))
          ELSE Goto(r, "batch_insert")
  /\ UNCHANGED <<stored, indexQueue, mailbox, acc, reply, published, sessions, subscriptions, tables>>

\* BatchInsert handing the tasks to the indexer as soon as they are
\* collected, before the outcome of the insert is known
BatchInsert_IndexFirst(r) ==
  /\ pc[r] = "batch_insert"
  /\ \E canIndex \in {"yes", "no", "err"}, inserted \in BOOLEAN :
       IF canIndex = "err"
         THEN /\ Respond(r, "Internal")
              /\ UNCHANGED <<req, stored, indexQueue>>
         ELSE /\ indexQueue' = indexQueue \cup
                     (IF canIndex = "yes" THEN BatchPending(r, req[r].frames) ELSE {})
              /\ IF inserted
                   THEN /\ stored' = InsertAll(stored, req[r].frames, 1)
                        /\ UNCHANGED req
                        /\ Goto(r, "batch_index")
                   ELSE /\ Respond(r, "Internal")
                        /\ UNCHANGED <<req, stored>>
  /\ UNCHANGED <<mailbox, acc, reply, published, sessions, subscriptions, tables>>

\* lines 1297-1331: collect the index tasks, then batch_insert_new_collab
BatchInsert(r) ==
  /\ pc[r] = "batch_insert"
  /\ \E canIndex \in {"yes", "no", "err"}, inserted \in BOOLEAN :
       IF canIndex = "err" \/ ~inserted
         THEN /\ Respond(r, "Internal")
              /\ UNCHANGED <<req, stored>>
         ELSE /\ stored' = InsertAll(stored, req[r].frames, 1)
              /\ req' = [req EXCEPT ![r].pending =
                           IF canIndex = "yes" THEN BatchPending(r, req[r].frames) ELSE {}]
              /\ Goto(r, "batch_index")
  /\ UNCHANGED <<indexQueue, mailbox, acc, reply, published, sessions, subscriptions, tables>>

\* lines 1339-1346: index_pending_collabs for the whole batch, then Ok
BatchIndex(r) ==
  /\ pc[r] = "batch_index"
  /\ IF req[r].pending = {}
       THEN Respond(r, "Ok") /\ UNCHANGED indexQueue
       ELSE \E enqueued \in BOOLEAN :
              IF enqueued
                THEN /\ indexQueue' = indexQueue \cup req[r].pending
                     /\ Respond(r, "Ok")
                ELSE /\ UNCHANGED indexQueue
                     /\ Respond(r, "Internal")
  /\ UNCHANGED <<req, stored, mailbox, acc, reply, published, sessions, subscriptions, tables>>

\* ------------------------------------------------ realtime server mailbox
\* Addr::try_send: the message is accepted only while the mailbox has room
MailboxFull == Len(mailbox) >= MailboxCap

UpdateMsg(r) == [kind |-> "update", req |-> r]
StreamMsg(r) == [kind |-> "stream", req |-> r]
EmbedMsg(r) == [kind |-> "embed", req |-> r]

\* --------------------------------------------- collab_full_sync_handler
\* body: what the checks of lines 3242-3258 make of the request body.
\* update: the doc_state after decompression; update.items = {} is an
\* empty doc_state, quality "corrupt" an update the CRDT cannot apply.
Updates ==
  [items : {{i} : i \in Items} \cup {Items}, quality : {"ok"}]
    \cup {[items |-> {}, quality |-> "ok"], [items |-> {1}, quality |-> "corrupt"]}

\* compression: PayloadCompressionType of the request.  The doc_state on
\* the wire is empty only when an empty update travels uncompressed: a
\* Zstd frame of no content is itself a few bytes long.
\* Every kind of update is sent to the first object; the others receive
\* one valid update, enough for actors of different objects to run side by
\* side.
FullSyncRequests ==
  [kind : {"full_sync"}, body : {"ok"}, obj : {"o1"}, update : Updates,
   compression : {"None"}]
    \cup [kind : {"full_sync"}, body : {"ok"}, obj : Objects \ {"o1"},
          update : {[items |-> {1}, quality |-> "ok"]}, compression : {"None"}]
    \cup [kind : {"full_sync"}, body : {"ok"}, obj : {"o1"},
          update : {[items |-> {}, quality |-> "ok"], [items |-> {1}, quality |-> "ok"]},
          compression : {"Zstd"}]
    \cup [kind : {"full_sync"}, body : {"empty", "too_large", "malformed"},
          obj : {"o1"}, update : {[items |-> {1}, quality |-> "ok"]},
          compression : {"None"}]

\* the handler without its check of line 3260
WireDocStateEmpty_Unchecked(q) == FALSE

\* params.doc_state.is_empty(), line 3260: asked of the bytes as received
WireDocStateEmpty(q) == q.compression = "None" /\ q.update.items = {}

\* lines 3234-3303: body checks, empty doc_state check, capacity check
FullSyncCapacity(r) ==
  /\ Arrives(r)
  /\ \E q \in FullSyncRequests :
       /\ req' = [req EXCEPT ![r] = q]
       /\ IF q.body # "ok" \/ WireDocStateEmpty(q)
            THEN Respond(r, "InvalidRequest")
          ELSE IF CheckUserStorageLimit(Size(q.update)) # "Ok"
            THEN Respond(r, CheckUserStorageLimit(Size(q.update)))
          ELSE Goto(r, "sync_send")
  /\ UNCHANGED <<stored, indexQueue, mailbox, acc, reply, published, sessions, subscriptions, tables>>

\* lines 3305-3326: build ClientHttpUpdateMessage with a oneshot return_tx
\* and try_send it; a refused send is mapped to AppError::Internal
FullSyncSend(r) ==
  /\ pc[r] = "sync_send"
  /\ IF MailboxFull
       THEN Respond(r, "Internal") /\ UNCHANGED mailbox
       ELSE Goto(r, "sync_wait") /\ mailbox' = Append(mailbox, UpdateMsg(r))
  /\ UNCHANGED <<req, stored, indexQueue, acc, reply, published, sessions, subscriptions, tables>>

\* zstd::encode_all(data, 3): the snapshot inside a Zstd frame
ZstdEncode(data) == [encoding |-> "zstd", data |-> data]

\* FullSyncReply with the Ok(Some) and Ok(None) arms exchanged
FullSyncReply_ArmsSwapped(r) ==
  /\ pc[r] = "sync_wait"
  /\ reply[r] # NoReply
  /\ CASE reply[r].tag = "some" -> Respond(r, "InternalServerError")
       [] reply[r].tag = "nothing" -> Respond(r, "Ok")
       [] reply[r].tag = "err" -> Respond(r, reply[r].code)
  /\ UNCHANGED <<req, stored, indexQueue, mailbox, acc, reply, published, sessions, subscriptions, tables>>

\* lines 3328-3341: await rx and turn the actor's answer into a response
FullSyncReply(r) ==
  /\ pc[r] = "sync_wait"
  /\ reply[r] # NoReply
  /\ CASE reply[r].tag = "some" -> RespondWith(r, "Ok", ZstdEncode(reply[r].snapshot))
       [] reply[r].tag = "nothing" -> Respond(r, "InternalServerError")
       [] reply[r].tag = "err" -> Respond(r, reply[r].code)
  /\ UNCHANGED <<req, stored, indexQueue, mailbox, acc, reply, published, sessions, subscriptions, tables>>

\* The client goes away while the handler is suspended: the runtime drops
\* the handler's future, and with it rx, the receiving end of the oneshot
\* channel of line 3313.  Nothing the handler has already sent is taken
\* back.
Disconnect(r) ==
  /\ pc[r] \in {"sync_send", "sync_wait"}
  /\ pc' = [pc EXCEPT ![r] = "gone"]
  /\ UNCHANGED <<req, resp, respBody, stored, indexQueue, mailbox, acc, reply, published, sessions, subscriptions, tables>>

\* ------------------------------------------------------ document actor
NoAcc == [tag |-> "none"]

\* requests whose update the actor of object o is merging right now
Merging(o) == {r \in Reqs : acc[r] # NoAcc /\ req[r].obj = o}

\* ActorBegin without the one-in-flight guard
ActorBegin_Overlapping(r) ==
  /\ mailbox # <<>>
  /\ Head(mailbox) = UpdateMsg(r)
  /\ mailbox' = Tail(mailbox)
  /\ acc' = [acc EXCEPT ![r] = [tag |-> "merging", base |-> stored[req[r].obj]]]
  /\ UNCHANGED <<pc, req, resp, respBody, stored, indexQueue, reply, published, sessions, subscriptions, tables>>

\* The server hands the oldest message, an update, to the actor of its
\* object, which takes it up when it has no other operation in flight.
ActorBegin(r) ==
  /\ mailbox # <<>>
  /\ Head(mailbox) = UpdateMsg(r)
  /\ Merging(req[r].obj) = {}
  /\ mailbox' = Tail(mailbox)
  /\ acc' = [acc EXCEPT ![r] = [tag |-> "merging", base |-> stored[req[r].obj]]]
  /\ UNCHANGED <<pc, req, resp, respBody, stored, indexQueue, reply, published, sessions, subscriptions, tables>>

\* a merge that takes the update for the whole state: the last writer wins
Merge_LastWriterWins(base, update) ==
  Snap(update.items, "ok", IF base = NoSnap THEN "Document" ELSE base.ctype)

\* a merge that does not recognise what it has seen: an update applied a
\* second time is taken for its own retraction
Merge_Repeats(base, update) ==
  Snap((base.items \ update.items) \cup (update.items \ base.items), "ok",
       IF base = NoSnap THEN "Document" ELSE base.ctype)

\* merge of an update into a replica: union of the CRDT items
Merge(base, update) ==
  Snap(base.items \cup update.items, "ok",
       IF base = NoSnap THEN "Document" ELSE base.ctype)

\* ActorFinish giving the operation up when nobody awaits its answer
ActorFinish_AbortsWhenGone(r) ==
  /\ acc[r] # NoAcc
  /\ LET o == req[r].obj
         merged == Merge(acc[r].base, req[r].update) IN
     IF pc[r] = "gone"
       THEN UNCHANGED <<stored, reply>>
     ELSE IF req[r].update.quality # "ok" \/ req[r].update.items = {}
       THEN /\ reply' = [reply EXCEPT ![r] = [tag |-> "err", code |-> "InvalidRequest"]]
            /\ UNCHANGED stored
       ELSE /\ stored' = [stored EXCEPT ![o] = merged]
            /\ reply' = [reply EXCEPT ![r] =
                           IF merged.items # acc[r].base.items
                             THEN [tag |-> "some", snapshot |-> merged.items]
                             ELSE [tag |-> "nothing"]]
  /\ acc' = [acc EXCEPT ![r] = NoAcc]
  /\ UNCHANGED <<pc, req, resp, respBody, indexQueue, mailbox, published, sessions, subscriptions, tables>>

\* The actor finishes the operation: an empty or corrupt update is
\* rejected with a typed error and leaves the state alone; otherwise the
\* merged replica is persisted and the full snapshot is sent back, or
\* nothing when the merge changed nothing.
ActorFinish(r) ==
  /\ acc[r] # NoAcc
  /\ LET o == req[r].obj
         merged == Merge(acc[r].base, req[r].update) IN
     IF req[r].update.quality # "ok" \/ req[r].update.items = {}
       THEN /\ reply' = [reply EXCEPT ![r] = [tag |-> "err", code |-> "InvalidRequest"]]
            /\ UNCHANGED stored
       ELSE /\ stored' = [stored EXCEPT ![o] = merged]
            /\ reply' = [reply EXCEPT ![r] =
                           IF merged.items # acc[r].base.items
                             THEN [tag |-> "some", snapshot |-> merged.items]
                             ELSE [tag |-> "nothing"]]
  /\ acc' = [acc EXCEPT ![r] = NoAcc]
  /\ UNCHANGED <<pc, req, resp, respBody, indexQueue, mailbox, published, sessions, subscriptions, tables>>

\* ------------------------------- post_realtime_message_stream_handler
\* msg: what parser_realtime_msg makes of the body.  "bad_envelope" is a
\* body that HttpRealtimeMessage::decode refuses (line 3156), "malformed"
\* a payload that RealtimeMessage::decode refuses (lines 3173-3177).
StreamRequests == [kind : {"stream"}, msg : {"ok", "malformed", "bad_envelope"}]

\* lines 2776-2818: read the body, parse the realtime message, then
\* try_send it
StreamSend(r) ==
  /\ Arrives(r)
  /\ \E q \in StreamRequests :
       /\ req' = [req EXCEPT ![r] = q]
       /\ IF q.msg = "bad_envelope"
            THEN Respond(r, "Internal") /\ UNCHANGED mailbox
          ELSE IF q.msg # "ok"
            THEN Respond(r, "InvalidRequest") /\ UNCHANGED mailbox
          ELSE IF MailboxFull
            THEN Respond(r, "Internal") /\ UNCHANGED mailbox
          ELSE Respond(r, "Ok") /\ mailbox' = Append(mailbox, StreamMsg(r))
  /\ UNCHANGED <<stored, indexQueue, acc, reply, published, sessions, subscriptions, tables>>

\* ---------------------------- force_generate_collab_embedding_handler
EmbedRequests == [kind : {"embed"}, obj : {"o1"}]

\* lines 3207-3219: `let _ = server.try_send(request);` then Ok
EmbedSend(r) ==
  /\ Arrives(r)
  /\ \E q \in EmbedRequests : req' = [req EXCEPT ![r] = q]
  /\ mailbox' = IF MailboxFull THEN mailbox ELSE Append(mailbox, EmbedMsg(r))
  /\ Respond(r, "Ok")
  /\ UNCHANGED <<stored, indexQueue, acc, reply, published, sessions, subscriptions, tables>>

\* The server takes a stream or embedding message off its mailbox.
ServerConsume ==
  /\ mailbox # <<>>
  /\ Head(mailbox).kind \in {"stream", "embed"}
  /\ mailbox' = Tail(mailbox)
  /\ UNCHANGED <<pc, req, resp, respBody, stored, indexQueue, acc, reply, published, sessions, subscriptions, tables>>

\* ------------------------------------------------------ framed streams
\* A body is a sequence of bytes.  The length prefix has the layout of the
\* source's u32, written with PrefixLen bytes of MaxByte + 1 values each;
\* the caps are the source's caps expressed in that range.
PrefixLen == 2     \* bytes of a length prefix (4 in the source)
MetaCap == 1       \* 4 MiB cap on a metadata frame
DataCap == 2       \* 32 MiB cap on a data frame
BodyCap == 7       \* MAX_BODY_SIZE, the 50 MB cap on a whole body

Byte == 0..MaxByte
Bodies == UNION { [1..n -> Byte] : n \in 0..MaxBody }

\* u32::from_be_bytes: the first byte is the most significant
RECURSIVE FromBeBytes(_)
FromBeBytes(b) ==
  IF b = <<>> THEN 0
  ELSE FromBeBytes(SubSeq(b, 1, Len(b) - 1)) * (MaxByte + 1) + b[Len(b)]

\* the length prefix of the publish stream read most significant byte first
FromLeBytes_BigEndian(b) == FromBeBytes(b)

\* the little-endian read: the first byte is the least significant
RECURSIVE FromLeBytes(_)
FromLeBytes(b) ==
  IF b = <<>> THEN 0
  ELSE b[1] + (MaxByte + 1) * FromLeBytes(Tail(b))

\* payload_buffer[offset..offset + len], offsets counted from 0
Slice(buf, offset, len) == SubSeq(buf, offset + 1, offset + len)

\* lines 1214-1231: the loop over payload_buffer.  It stops only where
\* fewer than a prefix, or fewer than the announced bytes, are left.
RECURSIVE SplitFrames(_, _, _)
SplitFrames(buf, current_offset, offset_len_list) ==
  IF current_offset + PrefixLen <= Len(buf)
    THEN LET size == FromBeBytes(Slice(buf, current_offset, PrefixLen)) IN
         IF current_offset + PrefixLen + size > Len(buf)
           THEN offset_len_list
           ELSE SplitFrames(buf, current_offset + PrefixLen + size,
                            Append(offset_len_list, <<current_offset + PrefixLen, size>>))
    ELSE offset_len_list

\* lines 1207-1233 applied to a whole body: the frames the batch handler
\* hands to its filter, and the bytes it holds in payload_buffer meanwhile.
\* The loop is a function of the body alone, so it is applied here to
\* every body byte for byte; BatchRequests lists its frames by content.
SplitRequests == [kind : {"split"}, body : Bodies]

SplitBody(r) ==
  /\ Arrives(r)
  /\ \E q \in SplitRequests :
       req' = [req EXCEPT ![r] =
                 [kind |-> "split", body |-> q.body,
                  offset_len_list |-> SplitFrames(q.body, 0, <<>>),
                  buffered |-> Len(q.body)]]
  /\ Goto(r, "batch_frames")
  /\ UNCHANGED <<stored, indexQueue, mailbox, acc, reply, published, sessions, subscriptions, tables>>

\* --------------------------------------- post_publish_collabs_handler
\* PayloadReader: both reads fail when the payload ends before the bytes
\* asked for
CanRead(buf, pos, n) == pos + n <= Len(buf)

\* serde_json::from_slice on a metadata frame: which byte strings are the
\* JSON of a PublishCollabMetadata is reduced to their first byte
ParsesAsMetadata(meta) == meta # <<>> /\ meta[1] = MaxByte

ReadResult(outcome, accumulator, pos, allocated) ==
  [outcome |-> outcome, accumulator |-> accumulator, consumed |-> pos, allocated |-> allocated]

\* ReadPairs taking a data frame of length zero for the end of the stream
RECURSIVE ReadPairs_StopsAtEmptyData(_, _, _, _)
ReadPairs_StopsAtEmptyData(buf, pos, accumulator, allocated) ==
  IF ~CanRead(buf, pos, PrefixLen) THEN ReadResult("PayloadError", accumulator, pos, allocated)
  ELSE LET meta_len == FromLeBytes(Slice(buf, pos, PrefixLen))
           meta_at == pos + PrefixLen IN
  IF meta_len > MetaCap THEN ReadResult("InvalidRequest", accumulator, meta_at, allocated)
  ELSE IF meta_len = 0 THEN ReadResult("Ok", accumulator, meta_at, allocated)
  ELSE IF ~CanRead(buf, meta_at, meta_len)
    THEN ReadResult("PayloadError", accumulator, meta_at, allocated + meta_len)
  ELSE IF ~ParsesAsMetadata(Slice(buf, meta_at, meta_len))
    THEN ReadResult("JsonError", accumulator, meta_at + meta_len, allocated + meta_len)
  ELSE LET len_at == meta_at + meta_len IN
  IF ~CanRead(buf, len_at, PrefixLen)
    THEN ReadResult("PayloadError", accumulator, len_at, allocated + meta_len)
  ELSE LET data_len == FromLeBytes(Slice(buf, len_at, PrefixLen))
           data_at == len_at + PrefixLen IN
  IF data_len > DataCap
    THEN ReadResult("InvalidRequest", accumulator, data_at, allocated + meta_len)
  ELSE IF data_len = 0
    THEN ReadResult("Ok", accumulator, data_at, allocated + meta_len)
  ELSE IF ~CanRead(buf, data_at, data_len)
    THEN ReadResult("PayloadError", accumulator, data_at, allocated + meta_len + data_len)
  ELSE ReadPairs_StopsAtEmptyData(buf, data_at + data_len,
                 Append(accumulator, [meta |-> Slice(buf, meta_at, meta_len),
                                      data |-> Slice(buf, data_at, data_len)]),
                 allocated + meta_len + data_len)

\* lines 2667-2702: one turn of the loop reads a metadata frame and a data
\* frame; a metadata length of zero ends the loop.  allocated counts the
\* bytes of the buffers made with vec![0; len].
RECURSIVE ReadPairs(_, _, _, _)
ReadPairs(buf, pos, accumulator, allocated) ==
  IF ~CanRead(buf, pos, PrefixLen) THEN ReadResult("PayloadError", accumulator, pos, allocated)
  ELSE LET meta_len == FromLeBytes(Slice(buf, pos, PrefixLen))
           meta_at == pos + PrefixLen IN
  IF meta_len > MetaCap THEN ReadResult("InvalidRequest", accumulator, meta_at, allocated)
  ELSE IF meta_len = 0 THEN ReadResult("Ok", accumulator, meta_at, allocated)
  ELSE IF ~CanRead(buf, meta_at, meta_len)
    THEN ReadResult("PayloadError", accumulator, meta_at, allocated + meta_len)
  ELSE IF ~ParsesAsMetadata(Slice(buf, meta_at, meta_len))
    THEN ReadResult("JsonError", accumulator, meta_at + meta_len, allocated + meta_len)
  ELSE LET len_at == meta_at + meta_len IN
  IF ~CanRead(buf, len_at, PrefixLen)
    THEN ReadResult("PayloadError", accumulator, len_at, allocated + meta_len)
  ELSE LET data_len == FromLeBytes(Slice(buf, len_at, PrefixLen))
           data_at == len_at + PrefixLen IN
  IF data_len > DataCap
    THEN ReadResult("InvalidRequest", accumulator, data_at, allocated + meta_len)
  ELSE IF ~CanRead(buf, data_at, data_len)
    THEN ReadResult("PayloadError", accumulator, data_at, allocated + meta_len + data_len)
  ELSE ReadPairs(buf, data_at + data_len,
                 Append(accumulator, [meta |-> Slice(buf, meta_at, meta_len),
                                      data |-> Slice(buf, data_at, data_len)]),
                 allocated + meta_len + data_len)

PublishRequests == [kind : {"publish"}, body : Bodies]

RECURSIVE TotalDataSize(_)
TotalDataSize(accumulator) ==
  IF accumulator = <<>> THEN 0
  ELSE Len(Head(accumulator).data) + TotalDataSize(Tail(accumulator))

\* lines 2656-2713: read the pairs, refuse an empty list, check the quota
PublishRead(r) ==
  /\ Arrives(r)
  /\ \E q \in PublishRequests :
       LET read == ReadPairs(q.body, 0, <<>>, 0) IN
       /\ req' = [req EXCEPT ![r] =
                    [kind |-> "publish", body |-> q.body, accumulator |-> read.accumulator,
                     read |-> read.outcome, consumed |-> read.consumed,
                     allocated |-> read.allocated]]
       /\ IF read.outcome # "Ok"
            THEN Respond(r, read.outcome)
          ELSE IF read.accumulator = <<>>
            THEN Respond(r, "InvalidRequest")
          ELSE IF CheckUserStorageLimit(TotalDataSize(read.accumulator)) # "Ok"
            THEN Respond(r, CheckUserStorageLimit(TotalDataSize(read.accumulator)))
          ELSE Goto(r, "publish_store")
  /\ UNCHANGED <<stored, indexQueue, mailbox, acc, reply, published, sessions, subscriptions, tables>>

\* lines 2715-2737: publish_collabs stores the items; the clean-up of the
\* received copies that follows ignores its own errors
PublishStore(r) ==
  /\ pc[r] = "publish_store"
  /\ \E stored_ok \in BOOLEAN :
       IF stored_ok
         THEN /\ published' = published \cup {req[r].accumulator[i] : i \in DOMAIN req[r].accumulator}
              /\ Respond(r, "Ok")
         ELSE /\ UNCHANGED published
              /\ Respond(r, "Internal")
  /\ UNCHANGED <<req, stored, indexQueue, mailbox, acc, reply, sessions, subscriptions, tables>>

\* ---------------------------------------------------- presence registry
Uids == {1, 2}
DeviceIds == {"d1", "d2"}

\* RealtimeUser::new.  session_id is made anew for each connection and
\* connect_at is the time of the connection; both are counted here by the
\* number of the registration.  live tells whether the registry still
\* holds the user.
RealtimeUser(uid, device_id, session_id, connect_at) ==
  [uid |-> uid, device_id |-> device_id, session_id |-> session_id,
   connect_at |-> connect_at, live |-> TRUE]

\* a key made of the whole user, session_id and connect_at included, the
\* way the derived Hash and Eq of RealtimeUser compare
UserDeviceOf_WholeUser(user) ==
  <<user.device_id, user.uid, user.session_id, user.connect_at>>

\* impl From<&RealtimeUser> for UserDevice: device_id and uid, nothing else
UserDeviceOf(user) == <<user.device_id, user.uid>>

LiveSessions == {s \in sessions : s.live}

\* register(user): the prior session of the same user-device is evicted
\* and its subscriptions are torn down
Register(uid, device_id) ==
  /\ Cardinality(sessions) < MaxSessions
  /\ LET n == Cardinality(sessions) + 1
         user == RealtimeUser(uid, device_id, n, n)
         evicted == {s \in LiveSessions : UserDeviceOf(s) = UserDeviceOf(user)} IN
     /\ sessions' = (sessions \ evicted) \cup {[s EXCEPT !.live = FALSE] : s \in evicted} \cup {user}
     /\ subscriptions' = {sub \in subscriptions : \A s \in evicted : sub[1] # s.session_id}
  /\ UNCHANGED <<pc, req, resp, respBody, stored, indexQueue, mailbox, acc, reply, published, tables>>

\* a live connection starts to follow an object
Subscribe(session_id, o) ==
  /\ \E s \in LiveSessions : s.session_id = session_id
  /\ <<session_id, o>> \notin subscriptions
  /\ subscriptions' = subscriptions \cup {<<session_id, o>>}
  /\ UNCHANGED <<pc, req, resp, respBody, stored, indexQueue, mailbox, acc, reply, published, sessions, tables>>

\* unregister(session_id): removes presence and cancels the subscriptions
Unregister(session_id) ==
  /\ \E s \in LiveSessions :
       /\ s.session_id = session_id
       /\ sessions' = (sessions \ {s}) \cup {[s EXCEPT !.live = FALSE]}
  /\ subscriptions' = {sub \in subscriptions : sub[1] # session_id}
  /\ UNCHANGED <<pc, req, resp, respBody, stored, indexQueue, mailbox, acc, reply, published, tables>>

Presence ==
  \/ \E uid \in Uids, device_id \in DeviceIds : Register(uid, device_id)
  \/ \E session_id \in 1..MaxSessions, o \in Objects : Subscribe(session_id, o)
  \/ \E session_id \in 1..MaxSessions : Unregister(session_id)

\* ------------------------------------------------------- plan limits
\* i64::MAX, written as the largest integer the checker counts with
I64Max == 2147483647

RECURSIVE FromPlan(_)
\* PlanLimits::from_plan.  storage_bytes_limit is counted in GiB and
\* single_upload_limit in MiB.
FromPlan(plan) ==
  CASE plan = "Free" ->
         [member_limit |-> I64Max, storage_bytes_limit |-> 0, ai_responses_limit |-> 10,
          single_upload_limit |-> 0, storage_unlimited |-> TRUE, ai_unlimited |-> FALSE]
    [] plan = "Basic" ->
         [member_limit |-> 2, storage_bytes_limit |-> 2, ai_responses_limit |-> 10,
          single_upload_limit |-> 5, storage_unlimited |-> FALSE, ai_unlimited |-> FALSE]
    [] plan = "Pro" ->
         [member_limit |-> 5, storage_bytes_limit |-> 10, ai_responses_limit |-> 40,
          single_upload_limit |-> 10, storage_unlimited |-> FALSE, ai_unlimited |-> FALSE]
    [] plan = "Team" ->
         [member_limit |-> 10, storage_bytes_limit |-> 20, ai_responses_limit |-> 120,
          single_upload_limit |-> 20, storage_unlimited |-> FALSE, ai_unlimited |-> FALSE]
    [] plan \in {"AiMax", "AiLocal"} ->
         [FromPlan("Pro") EXCEPT !.ai_responses_limit = I64Max, !.ai_unlimited = TRUE]

\* PlanLimits::can_use_ai
CanUseAi(limits, current_count) ==
  limits.ai_unlimited \/ current_count < limits.ai_responses_limit

\* ------------------------------------------ stream_complete_text_handler
\* workspace.workspace_type of the two workspaces
Workspaces == {"w1", "w2"}
WorkspaceType == [w \in Workspaces |-> IF w = "w1" THEN "Free" ELSE "AiMax"]

\* check_ai_usage_limit (lines 250-275), called at line 64: the plan of the
\* workspace, its limits, and for a limited plan the count of this month
AiCheck(r) ==
  /\ Arrives(r)
  /\ \E w \in Workspaces :
       LET plan == WorkspaceType[w]
           limits == FromPlan(plan) IN
       /\ req' = [req EXCEPT ![r] = [kind |-> "ai", workspace |-> w, plan |-> plan, limits |-> limits]]
       /\ IF limits.ai_unlimited THEN Goto(r, "ai_call")
          ELSE IF ~CanUseAi(limits, aiUsage[w]) THEN Respond(r, "PlanLimitExceeded")
          ELSE Goto(r, "ai_call")
  /\ UNCHANGED <<collabState, tables>>

\* lines 82-109: the AI service answers or not; after an answer the count
\* is incremented, and a failed increment is only logged
AiComplete(r) ==
  /\ pc[r] = "ai_call"
  /\ \E outcome \in {"counted", "not_counted", "unavailable"} :
       /\ aiUsage' = IF outcome = "counted"
                       THEN [aiUsage EXCEPT ![req[r].workspace] = @ + 1]
                       ELSE aiUsage
       /\ Respond(r, IF outcome = "unavailable" THEN "AIServiceUnavailable" ELSE "Ok")
  /\ UNCHANGED <<req, collabState, joinRequests, userSubs, collabMember, policies>>

\* A request served from its check to its count with no other request in
\* between, of which nothing else is kept: the months of use before the
\* requests that are followed step by step.
AiServed(w) ==
  /\ CanUseAi(FromPlan(WorkspaceType[w]), aiUsage[w])
  /\ FromPlan(WorkspaceType[w]).ai_unlimited => aiUsage[w] < MaxAiCount
  /\ aiUsage' = [aiUsage EXCEPT ![w] = @ + 1]
  /\ UNCHANGED <<pc, req, resp, collabState, joinRequests, userSubs, collabMember, policies>>

NextAi ==
  \/ \E r \in Reqs : AiCheck(r) \/ AiComplete(r)
  \/ \E w \in Workspaces : AiServed(w)

\* The AI endpoints alone, with the monthly count of each workspace.
SpecAi == Init /\ [][NextAi]_vars

\* ------------------------------------------------------ join requests
\* One workspace and one space.  A row of join_requests is its id, its
\* requester and its status; the id, a fresh Uuid in the source, is the
\* number of the request that inserts the row.
PendingOf(requester_id) ==
  {row \in joinRequests : row.requester_id = requester_id /\ row.status = "pending"}

\* create_join_request, lines 20-39: a member of the space cannot ask
JoinMemberCheck(r) ==
  /\ Arrives(r)
  /\ \E u \in Users \ {"owner"} :
       /\ req' = [req EXCEPT ![r] = [kind |-> "join_create", requester_id |-> u]]
       /\ IF collabMember[u] # 0 THEN Respond(r, "RecordAlreadyExists")
          ELSE Goto(r, "join_pending")
  /\ UNCHANGED <<collabState, tables>>

\* lines 41-56: a pending request of the same requester already exists
JoinPendingCheck(r) ==
  /\ pc[r] = "join_pending"
  /\ IF PendingOf(req[r].requester_id) # {} THEN Respond(r, "RecordAlreadyExists")
     ELSE Goto(r, "join_insert")
  /\ UNCHANGED <<req, collabState, tables>>

\* lines 58-79: INSERT INTO join_requests ... 'pending'
JoinInsert(r) ==
  /\ pc[r] = "join_insert"
  /\ joinRequests' = joinRequests \cup
       {[id |-> r, requester_id |-> req[r].requester_id, status |-> "pending"]}
  /\ Respond(r, "Ok")
  /\ UNCHANGED <<req, collabState, aiUsage, userSubs, collabMember, policies>>

\* A create_join_request served from its first check to its insert before
\* any of the requests that are followed step by step: the one request
\* the space may already hold when they arrive.
JoinRequested(u) ==
  /\ \A r \in Reqs : pc[r] = "idle"
  /\ joinRequests = {}
  /\ collabMember[u] = 0
  /\ joinRequests' = {[id |-> 0, requester_id |-> u, status |-> "pending"]}
  /\ UNCHANGED <<pc, req, resp, collabState, aiUsage, userSubs, collabMember, policies>>

\* handle_join_request, lines 140-158: only the owner of the space, the
\* member with permission_id 4, may decide
HandleOwnerCheck(r) ==
  /\ Arrives(r)
  /\ \E caller \in {"owner", "u1"}, request_id \in {0} \cup Reqs, approve \in BOOLEAN :
       /\ req' = [req EXCEPT ![r] = [kind |-> "join_handle", caller |-> caller,
                                     request_id |-> request_id, approve |-> approve,
                                     requester_id |-> "none"]]
       /\ IF collabMember[caller] # 4 THEN Respond(r, "NotEnoughPermissions")
          ELSE Goto(r, "handle_fetch")
  /\ UNCHANGED <<collabState, tables>>

\* lines 160-176: the request is read; it must exist and be pending
HandleFetch(r) ==
  /\ pc[r] = "handle_fetch"
  /\ LET found == {row \in joinRequests : row.id = req[r].request_id} IN
     IF found = {} THEN Respond(r, "RecordNotFound") /\ UNCHANGED req
     ELSE LET request == CHOOSE row \in found : TRUE IN
          IF request.status # "pending" THEN Respond(r, "InvalidRequest") /\ UNCHANGED req
          ELSE /\ req' = [req EXCEPT ![r].requester_id = request.requester_id]
               /\ Goto(r, "handle_update")
  /\ UNCHANGED <<collabState, tables>>

\* lines 178-192: UPDATE join_requests SET status = $1 WHERE id = $3
HandleUpdate(r) ==
  /\ pc[r] = "handle_update"
  /\ LET status == IF req[r].approve THEN "approved" ELSE "rejected"
         hit == {row \in joinRequests : row.id = req[r].request_id} IN
     joinRequests' = (joinRequests \ hit) \cup {[row EXCEPT !.status = status] : row \in hit}
  /\ IF req[r].approve THEN Goto(r, "handle_member") ELSE Respond(r, "Ok")
  /\ UNCHANGED <<req, collabState, aiUsage, userSubs, collabMember, policies>>

\* lines 194-210: INSERT INTO af_collab_member ... permission_id 3 ... ON
\* CONFLICT DO NOTHING; the statement may fail, and its error is returned
HandleMember(r) ==
  /\ pc[r] = "handle_member"
  /\ \E inserted \in BOOLEAN :
       IF inserted
         THEN /\ collabMember' = IF collabMember[req[r].requester_id] = 0
                                   THEN [collabMember EXCEPT ![req[r].requester_id] = 3]
                                   ELSE collabMember
              /\ Respond(r, "Ok")
         ELSE UNCHANGED collabMember /\ Respond(r, "Internal")
  /\ UNCHANGED <<req, collabState, aiUsage, joinRequests, userSubs, policies>>

\* cancel_join_request, lines 217-244: DELETE ... status = 'pending'
JoinCancel(r) ==
  /\ Arrives(r)
  /\ \E u \in Users \ {"owner"} :
       /\ req' = [req EXCEPT ![r] = [kind |-> "join_cancel", requester_id |-> u]]
       /\ joinRequests' = joinRequests \ PendingOf(u)
       /\ Respond(r, IF PendingOf(u) = {} THEN "RecordNotFound" ELSE "Ok")
  /\ UNCHANGED <<collabState, aiUsage, userSubs, collabMember, policies>>

NextJoin ==
  \/ \E r \in Reqs :
       \/ JoinMemberCheck(r)
       \/ JoinPendingCheck(r)
       \/ JoinInsert(r)
       \/ HandleOwnerCheck(r)
       \/ HandleFetch(r)
       \/ HandleUpdate(r)
       \/ HandleMember(r)
       \/ JoinCancel(r)
  \/ \E u \in Users \ {"owner"} : JoinRequested(u)

\* The join requests of one space alone.
SpecJoin == Init /\ [][NextJoin]_vars

\* ------------------------------------------------------ subscriptions
\* A row of af_user_subscriptions is its id, its user and its status; the
\* id, a serial in the source, is the number of the request that inserts
\* the row.
ActiveOf(uid) == {row \in userSubs : row.uid = uid /\ row.status = "active"}

\* subscribe_plan, lines 41-49: the plan is read and must be active
SubscribePlan(r) ==
  /\ Arrives(r)
  /\ \E uid \in Users, is_active \in BOOLEAN :
       /\ req' = [req EXCEPT ![r] = [kind |-> "subscribe", uid |-> uid, is_active |-> is_active]]
       /\ IF ~is_active THEN Respond(r, "InvalidRequest")
          ELSE Goto(r, "sub_cancel_old")
  /\ UNCHANGED <<collabState, tables>>

\* upsert_user_subscription, lines 268-277: UPDATE ... SET status =
\* 'canceled' WHERE uid = $1 AND status = 'active'
SubscribeCancelOld(r) ==
  /\ pc[r] = "sub_cancel_old"
  /\ userSubs' = (userSubs \ ActiveOf(req[r].uid))
                   \cup {[row EXCEPT !.status = "canceled"] : row \in ActiveOf(req[r].uid)}
  /\ Goto(r, "sub_insert")
  /\ UNCHANGED <<req, collabState, aiUsage, joinRequests, collabMember, policies>>

\* lines 279-294: INSERT INTO af_user_subscriptions ... 'active'
SubscribeInsert(r) ==
  /\ pc[r] = "sub_insert"
  /\ userSubs' = userSubs \cup {[id |-> r, uid |-> req[r].uid, status |-> "active"]}
  /\ Respond(r, "Ok")
  /\ UNCHANGED <<req, collabState, aiUsage, joinRequests, collabMember, policies>>

\* cancel_user_subscription, lines 310-339: one UPDATE ... RETURNING read
\* with fetch_one, which fails when no row was active
CancelSubscription(r) ==
  /\ Arrives(r)
  /\ \E uid \in Users :
       /\ req' = [req EXCEPT ![r] = [kind |-> "unsubscribe", uid |-> uid]]
       /\ userSubs' = (userSubs \ ActiveOf(uid))
                        \cup {[row EXCEPT !.status = "canceled"] : row \in ActiveOf(uid)}
       /\ Respond(r, IF ActiveOf(uid) = {} THEN "RecordNotFound" ELSE "Ok")
  /\ UNCHANGED <<collabState, aiUsage, joinRequests, collabMember, policies>>

NextSubscribe ==
  \E r \in Reqs :
    \/ SubscribePlan(r)
    \/ SubscribeCancelOld(r)
    \/ SubscribeInsert(r)
    \/ CancelSubscription(r)

\* The subscriptions of the users alone.
SpecSubscribe == Init /\ [][NextSubscribe]_vars

\* ----------------------------------------------------- collab members
\* One shared collab.  select_collab_owner answers "owner" throughout.
\* ids of the rows select_permission finds, and their access levels
PermissionIds == {1, 2, 3, 4}
AccessLevelOf(permission_id) ==
  CASE permission_id = 1 -> "ReadOnly"
    [] permission_id = 2 -> "ReadAndComment"
    [] permission_id = 3 -> "ReadAndWrite"
    [] permission_id = 4 -> "FullAccess"

\* add_collab_member, lines 13-40, one transaction: the owner cannot be
\* invited; the member row is inserted and the policy set to ReadOnly.  An
\* insert for a user who has a row already fails on the (oid, uid) key of
\* af_collab_member and the transaction is dropped.
AddCollabMember(r) ==
  /\ Arrives(r)
  /\ \E send_uid \in Users, received_uid \in Users :
       /\ req' = [req EXCEPT ![r] = [kind |-> "member_add", send_uid |-> send_uid,
                                     uid |-> received_uid]]
       /\ IF received_uid = "owner"
            THEN Respond(r, "InvalidRequest") /\ UNCHANGED <<collabMember, policies>>
          ELSE IF collabMember[received_uid] # 0
            THEN Respond(r, "Internal") /\ UNCHANGED <<collabMember, policies>>
          ELSE /\ collabMember' = [collabMember EXCEPT ![received_uid] = 1]
               /\ policies' = [policies EXCEPT ![received_uid] = "ReadOnly"]
               /\ Respond(r, "Ok")
  /\ UNCHANGED <<collabState, aiUsage, joinRequests, userSubs>>

EditRequests ==
  [kind : {"member_edit"}, owner_uid : Users, uid : Users, new_permission_id : {2, 3, 9}]

\* EditCheck asking first whether the caller is the owner
EditCheck_CallerFirst(r) ==
  /\ Arrives(r)
  /\ \E q \in EditRequests :
       /\ req' = [req EXCEPT ![r] = q]
       /\ IF q.owner_uid # "owner" THEN Respond(r, "NotEnoughPermissions")
          ELSE IF q.uid = "owner" THEN Respond(r, "InvalidRequest")
          ELSE IF q.new_permission_id \notin PermissionIds THEN Respond(r, "InvalidRequest")
          ELSE Goto(r, "edit_update")
  /\ UNCHANGED <<collabState, tables>>

\* edit_collab_member_permission, lines 51-67: the owner's permission
\* cannot be edited; only the owner may edit; the permission must exist
EditCheck(r) ==
  /\ Arrives(r)
  /\ \E q \in EditRequests :
       /\ req' = [req EXCEPT ![r] = q]
       /\ IF q.uid = "owner" THEN Respond(r, "InvalidRequest")
          ELSE IF q.owner_uid # "owner" THEN Respond(r, "NotEnoughPermissions")
          ELSE IF q.new_permission_id \notin PermissionIds THEN Respond(r, "InvalidRequest")
          ELSE Goto(r, "edit_update")
  /\ UNCHANGED <<collabState, tables>>

\* line 69: update_collab_member_permission, an UPDATE of the member's row
EditUpdate(r) ==
  /\ pc[r] = "edit_update"
  /\ collabMember' = IF collabMember[req[r].uid] # 0
                       THEN [collabMember EXCEPT ![req[r].uid] = req[r].new_permission_id]
                       ELSE collabMember
  /\ Goto(r, "edit_policy")
  /\ UNCHANGED <<req, collabState, aiUsage, joinRequests, userSubs, policies>>

\* lines 71-76: the access policy follows the new permission
EditPolicy(r) ==
  /\ pc[r] = "edit_policy"
  /\ policies' = [policies EXCEPT ![req[r].uid] = AccessLevelOf(req[r].new_permission_id)]
  /\ Respond(r, "Ok")
  /\ UNCHANGED <<req, collabState, aiUsage, joinRequests, userSubs, collabMember>>

\* remove_collab_member, lines 97-107: only the owner may remove, and not
\* themselves
RemoveCheck(r) ==
  /\ Arrives(r)
  /\ \E owner_uid \in Users, uid \in Users :
       /\ req' = [req EXCEPT ![r] = [kind |-> "member_remove", owner_uid |-> owner_uid,
                                     uid |-> uid]]
       /\ IF owner_uid # "owner" THEN Respond(r, "NotEnoughPermissions")
          ELSE IF owner_uid = uid THEN Respond(r, "InvalidRequest")
          ELSE Goto(r, "remove_row")
  /\ UNCHANGED <<collabState, tables>>

\* line 110: delete_collab_member
RemoveRow(r) ==
  /\ pc[r] = "remove_row"
  /\ collabMember' = [collabMember EXCEPT ![req[r].uid] = 0]
  /\ Goto(r, "remove_policy")
  /\ UNCHANGED <<req, collabState, aiUsage, joinRequests, userSubs, policies>>

\* lines 112-117: remove_access_level
RemovePolicy(r) ==
  /\ pc[r] = "remove_policy"
  /\ policies' = [policies EXCEPT ![req[r].uid] = "none"]
  /\ Respond(r, "Ok")
  /\ UNCHANGED <<req, collabState, aiUsage, joinRequests, userSubs, collabMember>>

NextMembers ==
  \E r \in Reqs :
    \/ AddCollabMember(r)
    \/ EditCheck(r)
    \/ EditUpdate(r)
    \/ EditPolicy(r)
    \/ RemoveCheck(r)
    \/ RemoveRow(r)
    \/ RemovePolicy(r)

\* The members of one shared collab alone.
SpecMembers == Init /\ [][NextMembers]_vars

Next ==
  \/ \E r \in Reqs :
       \/ CreateCapacity(r)
       \/ CreateValidateIndex(r)
       \/ CreateCommit(r)
       \/ UpdateValidateIndex(r)
       \/ UpdatePersist(r)
       \/ BatchCapacity(r)
       \/ BatchInsert(r)
       \/ BatchIndex(r)
       \/ FullSyncCapacity(r)
       \/ FullSyncSend(r)
       \/ FullSyncReply(r)
       \/ Disconnect(r)
       \/ ActorBegin(r)
       \/ ActorFinish(r)
       \/ StreamSend(r)
       \/ EmbedSend(r)
       \/ SplitBody(r)
       \/ PublishRead(r)
       \/ PublishStore(r)
  \/ ServerConsume
  \/ Presence
  \/ NextAi
  \/ NextJoin
  \/ NextSubscribe
  \/ NextMembers

Spec == Init /\ [][Next]_vars

\* The realtime paths alone: full-sync, stream and embedding requests
\* with the server and the document actors behind the mailbox.
NextSync ==
  \/ \E r \in Reqs :
       \/ FullSyncCapacity(r)
       \/ FullSyncSend(r)
       \/ FullSyncReply(r)
       \/ Disconnect(r)
       \/ ActorBegin(r)
       \/ ActorFinish(r)
       \/ StreamSend(r)
       \/ EmbedSend(r)
  \/ ServerConsume

SpecSync == Init /\ [][NextSync]_vars

\* The two single-object paths that check the quota themselves: create
\* and full-sync, the latter with its actor.
NextQuota ==
  \E r \in Reqs :
    \/ CreateCapacity(r)
    \/ CreateValidateIndex(r)
    \/ CreateCommit(r)
    \/ FullSyncCapacity(r)
    \/ FullSyncSend(r)
    \/ FullSyncReply(r)
    \/ ActorBegin(r)
    \/ ActorFinish(r)

SpecQuota == Init /\ [][NextQuota]_vars

\* Batch ingestion alone: concurrent batch requests on the collab table.
NextBatch ==
  \E r \in Reqs :
    \/ BatchCapacity(r)
    \/ BatchInsert(r)
    \/ BatchIndex(r)

SpecBatch == Init /\ [][NextBatch]_vars

\* The stores written without the actor: create, update and batch
\* requests on the collab table and the indexer queue.
NextStore ==
  \E r \in Reqs :
    \/ CreateCapacity(r)
    \/ CreateValidateIndex(r)
    \/ CreateCommit(r)
    \/ UpdateValidateIndex(r)
    \/ UpdatePersist(r)
    \/ BatchCapacity(r)
    \/ BatchInsert(r)
    \/ BatchIndex(r)

SpecStore == Init /\ [][NextStore]_vars

\* The two framed streams.  What the reading loops make of a body depends
\* on that body alone, so one request at a time covers them.
NextFrames ==
  \/ SplitBody(1)
  \/ PublishRead(1)
  \/ PublishStore(1)

SpecFrames == Init /\ [][NextFrames]_vars

\* The presence registry alone: connections come, follow objects and go.
SpecPresence == Init /\ [][Presence]_vars

\* ================================================================ claims
IsSync(r) == req[r].kind = "full_sync"

\* the update of request r has been merged by the actor
Applied(r) == IsSync(r) /\ reply[r].tag \in {"some", "nothing"}

\* no create, update or batch request is around to overwrite a row
OnlySyncWrites == \A r \in Reqs : req[r].kind \notin {"create", "update", "batch"}

AppliedItems(o) == UNION {req[r].update.items : r \in {q \in Reqs : Applied(q) /\ req[q].obj = o}}

RECURSIVE UsageOf(_, _)
UsageOf(table, S) ==
  IF S = {} THEN 0
  ELSE LET o == CHOOSE x \in S : TRUE
       IN Cardinality(table[o].items) + UsageOf(table, S \ {o})

\* request r takes a step of its handler
Steps(r) == pc'[r] # pc[r] /\ pc'[r] # "gone"

\* a request of the given kind arrives in slot r and runs the first
\* stretch of its handler
Starts(r, kind) == pc[r] = "idle" /\ Steps(r) /\ req'[r].kind = kind

GoodFrame(f) == f.wire = "ok" /\ f.snap.quality = "ok"

GoodAt(frames, o) == {i \in DOMAIN frames : GoodFrame(frames[i]) /\ ObjAt(i) = o}

\* C3 as stated: a batch request is never failed on account of frames that
\* do not decompress, parse or validate.
C3_NeverFailsOnBadFrame ==
  \A r \in Reqs :
    req[r].kind = "batch" /\ (\E i \in DOMAIN req[r].frames : ~GoodFrame(req[r].frames[i]))
      => resp[r] # "InvalidRequest"

\* C3 amended: in a batch that holds at least one valid frame, the invalid
\* frames are dropped and the request is not failed for them, and the bulk
\* insert writes a row for every valid frame and for no other frame; a
\* batch without any valid frame is rejected with InvalidRequest.
C3_PartialTolerance ==
  /\ [](\A r \in Reqs :
          req[r].kind = "batch" /\ pc[r] = "done"
            => (resp[r] = "InvalidRequest"
                  <=> \A i \in DOMAIN req[r].frames : ~GoodFrame(req[r].frames[i])))
  /\ [][\A r \in Reqs :
          pc[r] = "batch_insert" /\ pc'[r] = "batch_index"
            => \A o \in Objects :
                 IF GoodAt(req[r].frames, o) = {}
                   THEN stored'[o] = stored[o]
                   ELSE \E i \in GoodAt(req[r].frames, o) : stored'[o] = req[r].frames[i].snap]_vars

\* a batch with a bad frame and a good frame went through: the good frame
\* is the row of its object, the bad frame's object has no row
C3_Witness ==
  \E r \in Reqs :
    /\ req[r].kind = "batch" /\ resp[r] = "Ok"
    /\ Len(req[r].frames) = 2
    /\ \E i, j \in DOMAIN req[r].frames :
         /\ ~GoodFrame(req[r].frames[i]) /\ stored[ObjAt(i)] = NoSnap
         /\ GoodFrame(req[r].frames[j]) /\ stored[ObjAt(j)] = req[r].frames[j].snap

Saturated == Len(mailbox) >= MailboxCap

\* C5: a full-sync or stream submission that finds the server mailbox
\* saturated is not queued and is answered at once with the retryable
\* Busy error.
C5_BusyOnSaturation ==
  [][\A r \in Reqs :
       /\ \/ pc[r] = "sync_send" /\ Steps(r)
          \/ Starts(r, "stream") /\ req'[r].msg = "ok"
       /\ Saturated
       => /\ mailbox' = mailbox
          /\ pc'[r] = "done"
          /\ resp'[r] = "Busy"]_vars

\* C6: a submission refused because the server mailbox is saturated is
\* never answered with success.
C6_RefusalReported ==
  [][\A r \in Reqs :
       /\ \/ pc[r] = "sync_send" /\ Steps(r)
          \/ Starts(r, "embed")
          \/ Starts(r, "stream") /\ req'[r].msg = "ok"
       /\ Saturated
       => resp'[r] # "Ok"]_vars

\* C7: every stored doc_state decodes and passes the structural validation
\* of its collab_type.
C7_StoredIsValid ==
  \A o \in Objects : stored[o] # NoSnap => stored[o].quality = "ok"

\* C8: the index task of a create or update request is in the indexer's
\* queue only once the request's write has been committed.
C8_IndexAfterCommit ==
  \A t \in indexQueue :
    req[t.req].kind \in {"create", "update"}
      => pc[t.req] = "done" /\ resp[t.req] = "Ok"

\* C9: a create or update of a snapshot that decodes and validates is never
\* ended by the indexing stretch of its handler: whatever the indexer
\* answers, the request goes on to persist the snapshot.
C9_IndexingNeverFailsWrite ==
  [][\A r \in Reqs :
       /\ \/ pc[r] = "create_validate" /\ Steps(r)
          \/ Starts(r, "update")
       /\ req'[r].snap.quality = "ok"
       => pc'[r] \in {"create_commit", "update_persist"}]_vars

\* sum of the sizes of the frames the filter keeps
RECURSIVE GoodBytes(_, _)
GoodBytes(frames, i) ==
  IF i > Len(frames) THEN 0
  ELSE (IF GoodFrame(frames[i]) THEN Cardinality(frames[i].snap.items) ELSE 0)
         + GoodBytes(frames, i + 1)

\* C10: the batch handler compares the aggregate size of the valid frames
\* with the quota before it writes: the check itself writes nothing, and a
\* batch whose aggregate added to the usage exceeds the limit is ended
\* there with PlanLimitExceeded, so that none of its rows is persisted.
C10_AggregateCheckedFirst ==
  [][\A r \in Reqs :
       Starts(r, "batch")
         => /\ stored' = stored
            /\ UsageOf(stored, Objects) + GoodBytes(req'[r].frames, 1) > PlanLimit
                 => pc'[r] = "done" /\ resp'[r] # "Ok"]_vars

\* a batch of two valid frames, each within the quota alone, was rejected
\* for their sum, and neither frame's object has a row
C10_Witness ==
  \E r \in Reqs :
    /\ req[r].kind = "batch" /\ resp[r] = "PlanLimitExceeded"
    /\ Len(req[r].frames) >= 2
    /\ \A i \in DOMAIN req[r].frames :
         /\ GoodFrame(req[r].frames[i])
         /\ Cardinality(req[r].frames[i].snap.items) <= PlanLimit
         /\ stored[ObjAt(i)] = NoSnap

\* index tasks of request r that the indexer holds
TasksOf(r) == {t \in indexQueue : t.req = r}

\* the frames of a batch whose text goes to the indexer: valid Documents
Eligible(r, frames) ==
  { [req |-> r, obj |-> ObjAt(i)] :
      i \in {j \in DOMAIN frames : GoodFrame(frames[j]) /\ frames[j].snap.ctype = "Document"} }

\* C11: the index tasks of a batch reach the indexer in one submission
\* that carries the task of every eligible frame, made by the step that
\* follows the committed bulk insert and by no other step; a batch whose
\* insert failed, or that was rejected before it, has no task submitted.
C11_BatchIndexAfterInsert ==
  /\ [][\A r \in Reqs :
          req[r].kind = "batch" /\ TasksOf(r)' # TasksOf(r)
            => /\ pc[r] = "batch_index"
               /\ TasksOf(r) = {}
               /\ TasksOf(r)' = Eligible(r, req[r].frames)]_vars
  /\ [][\A r \in Reqs :
          pc[r] = "batch_insert" /\ pc'[r] = "done"
            => TasksOf(r)' = {} /\ stored' = stored]_vars
  /\ [](\A r \in Reqs :
          req[r].kind = "batch" /\ TasksOf(r) # {} => resp[r] = "Ok")

\* a batch of two Document frames was inserted and both of its index tasks
\* are with the indexer
C11_Witness ==
  \E r \in Reqs :
    /\ req[r].kind = "batch" /\ resp[r] = "Ok"
    /\ Cardinality(TasksOf(r)) = 2
    /\ \A t \in TasksOf(r) : stored[t.obj] # NoSnap

\* value of a length prefix, most significant byte first
RECURSIVE PrefixValueBe(_, _, _)
PrefixValueBe(buf, at, n) ==
  IF n = 0 THEN 0
  ELSE PrefixValueBe(buf, at, n - 1) * (MaxByte + 1) + buf[at + n]

\* a length written as a prefix, least significant byte first
RECURSIVE PrefixLe(_, _)
PrefixLe(len, n) ==
  IF n = 0 THEN <<>>
  ELSE <<len % (MaxByte + 1)>> \o PrefixLe(len \div (MaxByte + 1), n - 1)

\* the stream that carries the given pairs, without its terminator
RECURSIVE PairsOnWire(_)
PairsOnWire(items) ==
  IF items = <<>> THEN <<>>
  ELSE PrefixLe(Len(Head(items).meta), PrefixLen) \o Head(items).meta
         \o PrefixLe(Len(Head(items).data), PrefixLen) \o Head(items).data
         \o PairsOnWire(Tail(items))

\* where frame k of a list of (offset, len) frames ends
FrameEnd(list, k) == IF k = 0 THEN 0 ELSE list[k][1] + list[k][2]

C13_SizeGuards ==
  \A r \in Reqs :
    /\ req[r].kind = "publish"
         => /\ req[r].allocated <= (Len(req[r].accumulator) + 1) * (MetaCap + DataCap)
            /\ \A i \in DOMAIN req[r].accumulator :
                 /\ Len(req[r].accumulator[i].meta) <= MetaCap
                 /\ Len(req[r].accumulator[i].data) <= DataCap
    /\ req[r].kind = "full_sync" /\ req[r].body = "too_large"
         => pc[r] = "done" /\ resp[r] = "InvalidRequest" /\ reply[r] = NoReply
    /\ req[r].kind = "split"
         => /\ req[r].buffered <= BodyCap
            /\ \A k \in DOMAIN req[r].offset_len_list :
                 req[r].offset_len_list[k][2] <= DataCap

\* C14: a full-sync request whose update is empty is answered with a typed
\* error and never reaches the document actor: its message is never in the
\* server's mailbox, the actor never takes it up or answers it, and the
\* object's state is never written for it.
C14_EmptyUpdateNeverDelivered ==
  \A r \in Reqs :
    IsSync(r) /\ req[r].body = "ok" /\ req[r].update.items = {}
      => /\ pc[r] = "done" => resp[r] = "InvalidRequest"
         /\ \A i \in DOMAIN mailbox : mailbox[i] # [kind |-> "update", req |-> r]
         /\ acc[r] = NoAcc
         /\ reply[r] = NoReply

\* C15: every answered full-sync request got one of two responses: success
\* with the Zstd-compressed snapshot the actor returned as body, or an
\* error with an empty body, the latter only when the operation failed,
\* that is when the request was turned away before it reached the actor
\* or the actor answered with an error.
C15_TwoOutcomes ==
  \A r \in Reqs :
    IsSync(r) /\ pc[r] = "done"
      => \/ /\ resp[r] = "Ok"
            /\ reply[r].tag = "some"
            /\ respBody[r] = [encoding |-> "zstd", data |-> reply[r].snapshot]
         \/ /\ resp[r] # "Ok"
            /\ respBody[r] = [encoding |-> "none", data |-> {}]
            /\ reply[r].tag \in {"none", "err"}

\* a full-sync request that carries no update, sent uncompressed
EmptySync(q) ==
  q.kind = "full_sync" /\ q.body = "ok" /\ q.compression = "None" /\ q.update.items = {}

\* C16 as stated: once an update has been applied to an object, a full-sync
\* of that object with an empty update is not turned away: it succeeds and
\* brings back the full snapshot.
C16_EmptySyncSucceeds ==
  [][\A r \in Reqs :
       /\ pc[r] = "idle" /\ Steps(r)
       /\ EmptySync(req'[r])
       /\ stored[req'[r].obj].items # {}
       => ~(pc'[r] = "done" /\ resp'[r] # "Ok")]_vars

\* C16 amended: once an update has been applied to an object, a full-sync
\* of that object with an empty update (an empty doc_state on the wire) is
\* rejected by the HTTP bridge with InvalidRequest before it reaches the
\* actor: it returns no snapshot, it is never delivered, and the object
\* keeps the state the earlier update gave it.
C16_EmptySyncRejected ==
  /\ [][\A r \in Reqs :
          /\ pc[r] = "idle" /\ Steps(r)
          /\ EmptySync(req'[r])
          => /\ pc'[r] = "done" /\ resp'[r] = "InvalidRequest"
             /\ respBody'[r] = [encoding |-> "none", data |-> {}]
             /\ mailbox' = mailbox /\ stored' = stored]_vars
  /\ [](\A r \in Reqs :
          EmptySync(req[r]) => acc[r] = NoAcc /\ reply[r] = NoReply)

\* client A's update {1} was applied to o1 and answered, and client B's
\* full-sync of o1 with an empty update was rejected; o1 still holds {1}
C16_Witness ==
  \E a, b \in Reqs :
    /\ a # b /\ IsSync(a) /\ EmptySync(req[b])
    /\ req[a].obj = req[b].obj
    /\ req[a].update.items # {} /\ resp[a] = "Ok"
    /\ resp[b] = "InvalidRequest"
    /\ stored[req[b].obj].items = req[a].update.items

\* the actor finishes the operation of request r in this step
Finishes(r) == acc[r] # [tag |-> "none"] /\ acc'[r] = [tag |-> "none"]

Delivered(r) == \E i \in DOMAIN mailbox : mailbox[i] = [kind |-> "update", req |-> r]

SameUserDevice(s, t) == s.uid = t.uid /\ s.device_id = t.device_id

C21_MalformedIsDecodeError ==
  [][\A r \in Reqs :
       \/ Starts(r, "stream") /\ req'[r].msg # "ok"
       \/ Starts(r, "full_sync") /\ req'[r].body = "malformed"
       => /\ pc'[r] = "done" /\ resp'[r] = "InvalidRequest"
          /\ mailbox' = mailbox /\ acc' = acc /\ stored' = stored]_vars

\* value of a length prefix, least significant byte first
RECURSIVE PrefixValueLe(_, _, _)
PrefixValueLe(buf, at, n) ==
  IF n = 0 THEN 0
  ELSE buf[at + 1] + (MaxByte + 1) * PrefixValueLe(buf, at + 1, n - 1)

\* where pair i of a publish stream begins, given the pairs read from it
PairStart(items, i) == Len(PairsOnWire(SubSeq(items, 1, i - 1)))

\* C22 as stated: every reader takes the prefix bytes most significant
\* byte first, the publish reader for metadata and data frames as well as
\* the batch reader.
C22_AllBigEndian ==
  \A r \in Reqs :
    /\ req[r].kind = "split"
         => \A k \in DOMAIN req[r].offset_len_list :
              LET f == req[r].offset_len_list[k] IN
              f[2] = PrefixValueBe(req[r].body, f[1] - PrefixLen, PrefixLen)
    /\ req[r].kind = "publish" /\ req[r].read = "Ok"
         => \A i \in DOMAIN req[r].accumulator :
              LET it == req[r].accumulator[i]
                  at == PairStart(req[r].accumulator, i) IN
              /\ Len(it.meta) = PrefixValueBe(req[r].body, at, PrefixLen)
              /\ Len(it.data)
                   = PrefixValueBe(req[r].body, at + PrefixLen + Len(it.meta), PrefixLen)

\* C22, amended: the batch reader takes the prefix bytes of each frame most
\* significant byte first; the publish reader takes those of each metadata
\* frame and each data frame least significant byte first.
C22_EndiannessPerReader ==
  \A r \in Reqs :
    /\ req[r].kind = "split"
         => \A k \in DOMAIN req[r].offset_len_list :
              LET f == req[r].offset_len_list[k] IN
              f[2] = PrefixValueBe(req[r].body, f[1] - PrefixLen, PrefixLen)
    /\ req[r].kind = "publish" /\ req[r].read = "Ok"
         => \A i \in DOMAIN req[r].accumulator :
              LET it == req[r].accumulator[i]
                  at == PairStart(req[r].accumulator, i) IN
              /\ Len(it.meta) = PrefixValueLe(req[r].body, at, PrefixLen)
              /\ Len(it.data)
                   = PrefixValueLe(req[r].body, at + PrefixLen + Len(it.meta), PrefixLen)

\* a publish stream was read whose first prefix means one length read one
\* way and another length read the other way
C22_Witness ==
  \E r \in Reqs :
    /\ req[r].kind = "publish" /\ req[r].read = "Ok"
    /\ req[r].accumulator # <<>>
    /\ PrefixValueLe(req[r].body, 0, PrefixLen) # PrefixValueBe(req[r].body, 0, PrefixLen)

\* C24: whatever writes have been accepted, and however they interleaved,
\* the bytes stored for the user never exceed the plan limit.
C24_UsageWithinLimit == UsageOf(stored, Objects) <= PlanLimit

\* C23: the limits looked up for a workspace on the Free plan are an
\* unlimited number of members, unlimited storage and no AI response.
C23_FreePlanLimits ==
  \A r \in Reqs :
    req[r].kind = "ai" /\ req[r].plan = "Free"
      => /\ req[r].limits.member_limit = I64Max
         /\ req[r].limits.storage_unlimited
         /\ req[r].limits.ai_responses_limit = 0

\* C30: the responses counted this month for a workspace whose plan is not
\* AI-unlimited never exceed the plan's ai_responses_limit.
C30_CountWithinLimit ==
  \A w \in Workspaces :
    ~FromPlan(WorkspaceType[w]).ai_unlimited
      => aiUsage[w] <= FromPlan(WorkspaceType[w]).ai_responses_limit

\* C25: no requester has two pending join requests for the space.
C25_OnePendingPerRequester ==
  \A row1, row2 \in joinRequests :
    /\ row1.requester_id = row2.requester_id
    /\ row1.status = "pending" /\ row2.status = "pending"
    => row1 = row2

\* C26: the status of a join request changes only from pending, and of the
\* approve and reject calls on one request at most one succeeds.
C26_DecidedOnce ==
  /\ [][\A row \in joinRequests : \A row2 \in joinRequests' :
          row2.id = row.id /\ row2.status # row.status => row.status = "pending"]_vars
  /\ [](\A r1, r2 \in Reqs :
          /\ r1 # r2
          /\ req[r1].kind = "join_handle" /\ req[r2].kind = "join_handle"
          /\ req[r1].request_id = req[r2].request_id
          => ~(resp[r1] = "Ok" /\ resp[r2] = "Ok"))

\* C27: once no approval of a request is on its way any more, an approved
\* request's requester is a member of the space; and a user other than
\* the owner is a member only when an approved request of theirs exists.
C27_ApprovedIsMember ==
  /\ \A row \in joinRequests :
       /\ row.status = "approved"
       /\ \A r \in Reqs : ~(pc[r] = "handle_member" /\ req[r].request_id = row.id)
       => collabMember[row.requester_id] # 0
  /\ \A u \in Users \ {"owner"} :
       collabMember[u] # 0
         => \E row \in joinRequests : row.requester_id = u /\ row.status = "approved"

\* C28: no user has two subscription rows with status active.
C28_OneActiveSubscription ==
  \A row1, row2 \in userSubs :
    row1.uid = row2.uid /\ row1.status = "active" /\ row2.status = "active"
      => row1 = row2

\* request r is a permission edit or a removal
OnMember(r) == req[r].kind \in {"member_edit", "member_remove"}

\* C29 as stated: every edit or removal asked by someone other than the
\* owner is answered NotEnoughPermissions, every one that targets the
\* owner is answered InvalidRequest, and neither changes a member row or
\* a policy.
C29_EitherError ==
  [][\A r \in Reqs :
       pc[r] = "idle" /\ Steps(r) /\ OnMember(r)'
         => /\ req'[r].owner_uid # "owner" => resp'[r] = "NotEnoughPermissions"
            /\ req'[r].uid = "owner" => resp'[r] = "InvalidRequest"
            /\ req'[r].owner_uid # "owner" \/ req'[r].uid = "owner"
                 => collabMember' = collabMember /\ policies' = policies]_vars

\* C29, amended: a removal asked by someone other than the owner is
\* answered NotEnoughPermissions, and so is an edit asked by someone other
\* than the owner for a member who is not the owner; an edit that targets
\* the owner is answered InvalidRequest whoever asks, and so is the
\* owner's removal of themselves; none of these changes a member row or a
\* policy.  Member rows and policies change by an edit or a removal only
\* when the owner asks and the target is another user, and the owner's
\* own row and policy never change.
C29_OwnerOnly ==
  /\ [][\A r \in Reqs :
          pc[r] = "idle" /\ Steps(r) /\ OnMember(r)'
            => LET q == req'[r]
                   byOther == q.owner_uid # "owner"
                   onOwner == q.uid = "owner" IN
               /\ q.kind = "member_remove" /\ byOther => resp'[r] = "NotEnoughPermissions"
               /\ q.kind = "member_remove" /\ ~byOther /\ onOwner => resp'[r] = "InvalidRequest"
               /\ q.kind = "member_edit" /\ onOwner => resp'[r] = "InvalidRequest"
               /\ q.kind = "member_edit" /\ byOther /\ ~onOwner => resp'[r] = "NotEnoughPermissions"
               /\ byOther \/ onOwner
                    => pc'[r] = "done" /\ collabMember' = collabMember /\ policies' = policies]_vars
  /\ [][\A r \in Reqs :
          /\ pc[r] # "idle" /\ Steps(r) /\ OnMember(r)
          /\ collabMember' # collabMember \/ policies' # policies
          => req[r].owner_uid = "owner" /\ req[r].uid # "owner"]_vars
  /\ [](collabMember["owner"] = 4 /\ policies["owner"] = "FullAccess")

\* someone other than the owner asked to edit the owner's permission and
\* was answered InvalidRequest, and asked to remove the owner and was
\* answered NotEnoughPermissions
C29_Witness ==
  \E r1, r2 \in Reqs :
    /\ req[r1].kind = "member_edit" /\ req[r1].owner_uid # "owner" /\ req[r1].uid = "owner"
    /\ resp[r1] = "InvalidRequest"
    /\ req[r2].kind = "member_remove" /\ req[r2].owner_uid # "owner" /\ req[r2].uid = "owner"
    /\ resp[r2] = "NotEnoughPermissions"
====
